---- MODULE Spec2Model ----
(***************************************************************************)
(* Verification model of the Olarm integration (custom_components/olarm):  *)
(*   - the alarm panel's command dispatch (alarm_control_panel.py),        *)
(*   - the state exposed by area / zone entities from MQTT and poll data   *)
(*     (handler.py, alarm_control_panel.py, binary_sensor.py),             *)
(*   - the per-device MQTT client, its connect / reconnect machinery and   *)
(*     its callers on the Home Assistant event loop (mqtt.py, __init__.py).*)
(*                                                                         *)
(* Three specifications share the variables; each one keeps the variables  *)
(* of the other parts at their construction values.                        *)
(*   SpecCmd   command dispatch of one OlarmAlarmPanel                     *)
(*   SpecStore merge of STREAM / POLL snapshots as seen by the entities    *)
(*   Spec      one OlarmMqttClient with the event loop and its transport   *)
(*             threads                                                     *)
(***************************************************************************)
EXTENDS Integers, Sequences, FiniteSets, TLC

VARIABLES
    \* ---- OlarmMqttClient fields (mqtt.py 56-73)
    is_connected,        \* self.is_connected
    mqtt_client,         \* self.mqtt_client: 0 is None, else an index of clients
    subscribed_topics,   \* self.subscribed_topics
    reconnect_attempts,  \* self.reconnect_attempts
    reconnect_task,      \* self.reconnect_task: 0 is None, else an index of tasks
    connection_lock,     \* self.connection_lock: 0 is free, else the holder
    \* ---- event loop, transport threads, supervisor
    has_paho,            \* HAS_PAHO
    tasks,               \* live coroutines of the event loop, oldest first
    loop_blocked,        \* the event-loop thread is stuck in Lock.acquire()
    clients,             \* live paho client objects, oldest first
    loop_running,        \* paho clients whose network thread is running
    fleet,               \* supervisor: setup progress, mqtt_clients, timer
    status_published,    \* status requests accepted in the current session
    gave_up,             \* schedule_reconnect hit max_reconnect_attempts
    \* ---- OlarmAlarmPanel command dispatch
    entry_mqtt_only,     \* entry.data[CONF_MQTT_ONLY]
    via_setup,           \* the panel was built by async_setup_entry
    panel,               \* constructor arguments kept by the panel
    call,                \* the command call in progress and what it did
    status_request,      \* the last publish_status_request() and what it did
    \* ---- state exposed by the entities
    handler,             \* OlarmMessageHandler dictionaries for the device
    entity,              \* _current_state of the area and zone entities
    coordinator,         \* coordinator.data[device_id]
    applied,             \* what the last applied snapshots carried
    received,            \* kinds of the last two payloads given to on_message
    devices,             \* by device id: handler entries, entities, coordinator.data
    inbox,               \* _process_message coroutines handed to the loop, and how many ran
    \* ---- access tokens
    token                \* held by OlarmAuth, by the API client, by the MQTT client

conn_vars == <<is_connected, mqtt_client, subscribed_topics, reconnect_attempts,
               reconnect_task, connection_lock, has_paho, tasks, loop_blocked,
               clients, loop_running, fleet, status_published, gave_up>>
cmd_vars == <<entry_mqtt_only, via_setup, panel, call, status_request>>
store_vars == <<handler, entity, coordinator, applied, received, devices,
               inbox, token>>
vars == <<conn_vars, cmd_vars, store_vars>>

(***************************************************************************)
(* Bounds of the model.                                                    *)
(***************************************************************************)
NumAreas == 2
NumZones == 1
MaxTasks == 2
MaxClients == 2
NumDevices == 2
MaxMessages == 3

Areas == 1..NumAreas
Zones == 1..NumZones

None == "None"

(***************************************************************************)
(* const.py                                                                *)
(***************************************************************************)
Commands == {"disarm", "arm_away", "arm_home", "arm_night"}

\* MQTT_CMD_* (const.py 26-29)
MqttCmd(c) ==
    CASE c = "disarm" -> "disarm"
      [] c = "arm_away" -> "arm"
      [] c = "arm_home" -> "stay"
      [] c = "arm_night" -> "sleep"

\* CMD_* (const.py 20-23)
RestCmd(c) ==
    CASE c = "disarm" -> "area-disarm"
      [] c = "arm_away" -> "area-arm"
      [] c = "arm_home" -> "area-stay"
      [] c = "arm_night" -> "area-sleep"

(***************************************************************************)
(* Part 1.  Command dispatch of one OlarmAlarmPanel                         *)
(*          (alarm_control_panel.py; the four async_alarm_* methods have   *)
(*          the same body up to the command constant and log texts).       *)
(***************************************************************************)

\* dict.get(key, default) on a dictionary given as a function
Get(d, k, default) == IF k \in DOMAIN d THEN d[k] ELSE default

\* What async_setup_entry of __init__.py leaves in entry_data for the panel
\* platform.  mqtt_only is read from entry.data (line 74) and used for log
\* texts only: neither "mqtt_only" nor "api_enabled" is ever stored.
\* any_connected: some device's initial connect() returned True (line 234).
SetupEntryData(conf_mqtt_only, any_connected) ==
    [k \in {"mqtt_enabled"} |-> any_connected]

\* alarm_control_panel.async_setup_entry, lines 66-70 and 92
PanelArgs(entry_data, device_has_client) ==
    LET en == Get(entry_data, "mqtt_enabled", TRUE) IN
    [ mqtt_enabled |-> en,
      mqtt_only    |-> Get(entry_data, "mqtt_only", TRUE),
      api_enabled  |-> Get(entry_data, "api_enabled", FALSE),
      has_client   |-> IF en THEN device_has_client ELSE FALSE ]

\* alarm_control_panel.async_setup_entry, lines 95-97: no entity is created
\* for a device without MQTT client in MQTT-only mode
PanelCreated(a) == ~(a.mqtt_only /\ ~a.has_client)

PanelOf(a, exists) ==
    [ exists |-> exists, mqtt_enabled |-> a.mqtt_enabled,
      mqtt_only |-> a.mqtt_only, api_enabled |-> a.api_enabled,
      has_client |-> a.has_client ]

\* The value every `return` of async_alarm_* hands to its caller
ReturnOnSuccess == None

NoCall ==
    [ pc |-> "idle", cmd |-> None, area |-> 0, publish_result |-> "none",
      path |-> "none", rest_calls |-> 0, refreshes |-> 0,
      rest_outcome |-> "none", ret |-> "none", raised |-> FALSE,
      logged_error |-> FALSE, published |-> <<>>, rest_sent |-> <<>> ]

NoStatusRequest == [ret |-> "none", handed |-> FALSE]

PublishRcs == {"ok", "err", "exc"}
\* How the one HTTP request of OlarmApiClient._request ends
\* ("401": the server rejects the access token)
HttpOutcomes == {"200", "401", "non200", "ClientError", "timeout30"}

\* OlarmApiClient._request (api.py 63-94): what the caller gets.  A status
\* other than 200 and an aiohttp.ClientError become OlarmApiError.  When the
\* 30 s expire asyncio.TimeoutError reaches `except async_timeout.timeout`,
\* which names no exception class: the clause catches nothing and an
\* exception other than OlarmApiError leaves the method ("Timeout").
Request(h) ==
    CASE h = "200" -> "ok"
      [] h \in {"401", "non200", "ClientError"} -> "ApiError"
      [] h = "timeout30" -> "Timeout"

RestOutcomes == {Request(h) : h \in HttpOutcomes}

\* OlarmMqttClient.publish_action / publish_status_request: the gate on the
\* connection state and the mapping of the transport's answer to a bool
PublishGate(connected, client) == connected /\ client # 0

\* The answer of the transport is not looked at
PublishReturnIgnoresRc(connected, client, rc) ==
    PublishGate(connected, client)

PublishReturn(connected, client, rc) ==
    IF ~PublishGate(connected, client) THEN FALSE
    ELSE rc = "ok"

\* mqtt_client.publish(topic, payload, qos=1) is reached and takes the
\* message: it answers with a result code, or it raises
PublishHanded(connected, client, rc) ==
    PublishGate(connected, client) /\ rc # "exc"

\* The MQTT path is given up once a publish has failed
TryMqttUntilFailure(p, connected) ==
    p.mqtt_enabled /\ p.has_client /\ connected /\ call.publish_result # "false"

\* line 279: the MQTT path is tried
TryMqtt(p, connected) == p.mqtt_enabled /\ p.has_client /\ connected

\* A variant of lines 286-298 that does not return after a successful publish
AfterPublishFallsThrough(success, p) ==
    IF ~p.api_enabled \/ p.mqtt_only THEN
        (IF success THEN "return_ok" ELSE "return_mqtt_failed")
    ELSE "fallback"

\* lines 286-298: what follows publish_action
AfterPublish(success, p) ==
    IF success THEN "return_ok"
    ELSE IF ~p.api_enabled \/ p.mqtt_only THEN "return_mqtt_failed"
    ELSE "fallback"

\* lines 299-313: the MQTT path is not tried
NotConnected(p) ==
    IF p.mqtt_enabled /\ (~p.api_enabled \/ p.mqtt_only)
    THEN "return_not_connected"
    ELSE "fallback"

\* lines 315-320
Fallback(p) == IF ~p.api_enabled THEN "return_api_disabled" ELSE "rest"

\* The call after the decision `stage` was taken (a return, or the REST call
\* of lines 322-328 being awaited)
Dispatch(c, stage) ==
    CASE stage = "return_ok" ->
            [c EXCEPT !.pc = "done", !.path = "mqtt_ok", !.ret = None]
      [] stage \in {"return_mqtt_failed", "return_not_connected",
                    "return_api_disabled"} ->
            [c EXCEPT !.pc = "done", !.path = stage, !.ret = None,
                      !.logged_error = TRUE]
      [] stage = "rest" ->
            [c EXCEPT !.pc = "rest", !.rest_calls = @ + 1,
                      !.rest_sent = <<RestCmd(c.cmd), c.area>>]

Resolve(c, stage) ==
    IF stage = "fallback" THEN Dispatch(c, Fallback(panel)) ELSE Dispatch(c, stage)

\* async_alarm_disarm / arm_away / arm_home / arm_night are called
CmdStart(cm, a) ==
    /\ panel.exists
    /\ call.pc \in {"idle", "done"}
    /\ LET c0 == [NoCall EXCEPT !.cmd = cm, !.area = a] IN
       call' = IF TryMqtt(panel, is_connected)
               THEN [c0 EXCEPT !.pc = "publish"]
               ELSE Resolve(c0, NotConnected(panel))
    /\ UNCHANGED <<conn_vars, store_vars, entry_mqtt_only, via_setup, panel,
                   status_request>>

\* line 285: publish_action(MQTT_CMD_*, area) and the branches after it
CmdPublish(rc) ==
    /\ call.pc = "publish"
    /\ LET ok == PublishReturn(is_connected, mqtt_client, rc)
           c1 == [call EXCEPT
                    !.publish_result = IF ok THEN "true" ELSE "false",
                    !.published = IF PublishHanded(is_connected, mqtt_client, rc)
                                  THEN <<MqttCmd(call.cmd), call.area>>
                                  ELSE <<>>]
       IN call' = Resolve(c1, AfterPublish(ok, panel))
    /\ UNCHANGED <<conn_vars, store_vars, entry_mqtt_only, via_setup, panel,
                   status_request>>

\* publish_status_request() is called by on_connect or by a health check;
\* the transport thread may have changed the connection since the caller
\* looked at it
PublishStatusRequest(rc) ==
    /\ status_request' =
          [ret |-> IF PublishReturn(is_connected, mqtt_client, rc)
                   THEN "true" ELSE "false",
           handed |-> PublishHanded(is_connected, mqtt_client, rc)]
    /\ UNCHANGED <<conn_vars, store_vars, entry_mqtt_only, via_setup, panel, call>>

\* lines 326-335: send_device_action answers; OlarmApiError is caught and
\* logged, any other exception leaves the method
CmdRestResponse(out) ==
    /\ call.pc = "rest"
    /\ call' =
         CASE out = "ok" ->
                [call EXCEPT !.pc = "done", !.path = "api_ok",
                             !.rest_outcome = out, !.refreshes = @ + 1,
                             !.ret = None]
           [] out = "ApiError" ->
                [call EXCEPT !.pc = "done", !.path = "api_error",
                             !.rest_outcome = out, !.ret = None,
                             !.logged_error = TRUE]
           [] OTHER ->
                [call EXCEPT !.pc = "done", !.path = "raised",
                             !.rest_outcome = out, !.raised = TRUE]
    /\ UNCHANGED <<conn_vars, store_vars, entry_mqtt_only, via_setup, panel,
                   status_request>>

\* The connection changes under the panel: on_connect / on_disconnect run on
\* the transport thread, connect() and its timeout cleanup on the loop
StreamStateChange ==
    /\ \E b \in BOOLEAN, c \in {0, 1} :
          /\ <<b, c>> # <<is_connected, mqtt_client>>
          /\ is_connected' = b
          /\ mqtt_client' = c
    /\ UNCHANGED <<subscribed_topics, reconnect_attempts, reconnect_task,
                   connection_lock, has_paho, tasks, loop_blocked, clients,
                   loop_running, fleet, status_published,
                   gave_up>>
    /\ UNCHANGED <<cmd_vars, store_vars>>

(***************************************************************************)
(* Construction values of the three parts                                  *)
(***************************************************************************)

NoFleet == [setup |-> "new", in_clients |-> FALSE, timer |-> FALSE,
            unloaded |-> FALSE]

\* OlarmMqttClient.__init__ (mqtt.py 56-73), nothing started yet
ClientConstructed ==
    /\ is_connected = FALSE
    /\ mqtt_client = 0
    /\ subscribed_topics = {}
    /\ reconnect_attempts = 0
    /\ reconnect_task = 0
    /\ connection_lock = 0
    /\ tasks = <<>>
    /\ loop_blocked = 0
    /\ clients = <<>>
    /\ loop_running = {}
    /\ fleet = NoFleet
    /\ status_published = 0
    /\ gave_up = FALSE

\* No panel is looked at
NoPanel ==
    /\ entry_mqtt_only = FALSE
    /\ via_setup = FALSE
    /\ panel = PanelOf([mqtt_enabled |-> FALSE, mqtt_only |-> FALSE,
                        api_enabled |-> FALSE, has_client |-> FALSE], FALSE)
    /\ call = NoCall
    /\ status_request = NoStatusRequest

\* Values carried by snapshots (const.py 12-17, 32-34; power "1" / "0")
AreaStates == {"disarm", "arm"}
ZoneStates == {"a", "c"}
PowerVals == {"1", "0"}

NoAreaMap == [a \in Areas |-> None]
NoZoneMap == [z \in Zones |-> None]

\* The `data` object of an alarmPayload envelope (handler.py 85); present is
\* FALSE while device_state has no entry for the device
NoAlarmData ==
    [ present |-> FALSE, has_areas |-> FALSE, areas |-> <<>>,
      has_zones |-> FALSE, zones |-> <<>>, has_zstamp |-> FALSE,
      has_power |-> FALSE, power |-> None ]

\* coordinator.data: device is FALSE while the device id is not in it,
\* has_state is "deviceState" in device
NoSnapshot ==
    [ device |-> FALSE, has_state |-> FALSE, areas |-> <<>>, zones |-> <<>>,
      has_power |-> FALSE, power |-> None ]

NoDerived == [source |-> None, area |-> NoAreaMap, zone |-> NoZoneMap,
              power |-> None]

\* No payload has arrived
NothingReceived == <<None, None>>

\* The loop was handed no _process_message coroutine
NoInbox == [msgs |-> <<>>, done |-> 0]

\* async_setup_entry: the tokens read once from auth.get_tokens()
\* (__init__.py 150) are given to OlarmApiClient (155) and to every
\* OlarmMqttClient (195), which keeps its copy (mqtt.py 60).  Tokens are
\* numbered in the order the provider issued them.
TokensAtSetup == [auth |-> 1, api_key |-> 1, mqtt |-> 1]

\* The device ids of the account (the keys of handler.device_state,
\* handler.device_areas, handler.device_zones and coordinator.data)
DeviceIds == 1..NumDevices

\* OlarmMessageHandler.__init__: the dictionaries hold no device
HandlerConstructed ==
    [device_state |-> NoAlarmData, device_areas |-> <<>>, device_zones |-> <<>>,
     area_signals |-> {}, zone_signals |-> {}]

\* What the integration holds for one device before anything arrived; sn is
\* the entry of the device in the first refresh of the coordinator
DeviceConstructed(en, api, sn) ==
    [handler |-> HandlerConstructed,
     entity |-> [area |-> NoAreaMap, zone |-> NoZoneMap,
                 mqtt_enabled |-> en, api_enabled |-> api],
     coordinator |-> sn]

NoDevices == [d \in DeviceIds |-> DeviceConstructed(FALSE, FALSE, NoSnapshot)]

\* OlarmMessageHandler.__init__ (handler.py 33-35), entities just created,
\* no coordinator data for the device
StoreConstructed ==
    /\ handler = [device_state |-> NoAlarmData, device_areas |-> <<>>,
                  device_zones |-> <<>>, area_signals |-> {},
                  zone_signals |-> {}]
    /\ entity = [area |-> NoAreaMap, zone |-> NoZoneMap,
                 mqtt_enabled |-> FALSE, api_enabled |-> FALSE]
    /\ coordinator = NoSnapshot
    /\ applied = [area |-> NoAreaMap, zone |-> NoZoneMap, stream_power |-> None,
                  poll |-> NoDerived, last |-> NoDerived]
    /\ received = NothingReceived
    /\ devices = NoDevices
    /\ inbox = NoInbox
    /\ token = TokensAtSetup

(***************************************************************************)
(* SpecCmd                                                                 *)
(***************************************************************************)

InitCmd ==
    /\ has_paho = TRUE
    /\ ClientConstructed
    /\ StoreConstructed
    /\ entry_mqtt_only \in BOOLEAN
    /\ via_setup \in BOOLEAN
    /\ call = NoCall
    /\ status_request = NoStatusRequest
    /\ IF via_setup
       THEN \E any_connected \in BOOLEAN, dev_connected \in BOOLEAN :
               /\ dev_connected => any_connected
               /\ LET a == PanelArgs(SetupEntryData(entry_mqtt_only, any_connected),
                                     dev_connected)
                  IN panel = PanelOf(a, PanelCreated(a))
       ELSE \E en \in BOOLEAN, only \in BOOLEAN, api \in BOOLEAN, cl \in BOOLEAN :
               panel = PanelOf([mqtt_enabled |-> en, mqtt_only |-> only,
                                api_enabled |-> api, has_client |-> cl], TRUE)

NextCmd ==
    \/ \E cm \in Commands, a \in Areas : CmdStart(cm, a)
    \/ \E rc \in PublishRcs : CmdPublish(rc)
    \/ \E rc \in PublishRcs : PublishStatusRequest(rc)
    \/ \E out \in RestOutcomes : CmdRestResponse(out)
    \/ StreamStateChange

SpecCmd == InitCmd /\ [][NextCmd]_vars

\* The deployment does not permit the REST fallback for this panel
StreamOnly == panel.mqtt_only \/ ~panel.api_enabled

\* The stream path of the finished call was unavailable or its publish failed
StreamPathFailed == call.pc = "done" /\ call.publish_result # "true"

\* C1: for every command on any area, when the stream connection exists, is
\* connected and publish_action returns true, the command succeeds (returns
\* without error) and the REST client is not called for it.
C1_StreamSuccessNoRest ==
    call.publish_result = "true" =>
        /\ call.pc = "done"
        /\ call.path = "mqtt_ok"
        /\ call.rest_calls = 0
        /\ call.rest_sent = <<>>
        /\ ~call.raised
        /\ ~call.logged_error
        /\ call.published = <<MqttCmd(call.cmd), call.area>>

C1_Witness ==
    /\ call.pc = "done"
    /\ call.publish_result = "true"
    /\ call.cmd = "arm_night"
    /\ call.area = NumAreas
    /\ panel.api_enabled
    /\ ~panel.mqtt_only

\* C2: in stream-only mode a command whose stream path is unavailable or whose
\* publish fails ends with an UNAVAILABLE result the caller can tell from
\* success; it does not throw and does not call the REST client.
C2_StreamOnlyFailureIsReported ==
    (StreamOnly /\ StreamPathFailed) =>
        /\ ~call.raised
        /\ call.rest_calls = 0
        /\ call.ret # ReturnOnSuccess

\* C3: when the deployment does not configure stream-only mode and the stream
\* path is absent, not connected or its publish failed, the command is sent
\* through the REST client exactly once, and on its success a refresh is
\* requested.
C3_FallbackWhenPermitted ==
    (via_setup /\ ~entry_mqtt_only /\ panel.exists /\ StreamPathFailed) =>
        /\ call.rest_calls = 1
        /\ (call.rest_outcome = "ok" => call.refreshes = 1)

\* C4: when the REST fallback call fails with OlarmApiError the caller of the
\* command gets an outcome that differs from the one of a success.
C4_ApiErrorIsSurfaced ==
    (call.pc = "done" /\ call.rest_outcome = "ApiError") =>
        (call.raised \/ call.ret # ReturnOnSuccess)

(***************************************************************************)
(* Part 2.  State exposed by the entities of one device from STREAM (MQTT) *)
(*          events and POLL (coordinator) snapshots.                       *)
(***************************************************************************)

SeqsOf(S, n) == [1..n -> S]

\* Snapshots the model feeds in.  A STREAM event carries any subset of the
\* keys areas / zones (+ zonesStamp) / power; its area list has the profile's
\* length or one less.
AreaPart ==
    {[has |-> FALSE, v |-> <<>>]} \cup
    {[has |-> TRUE, v |-> x] :
        x \in SeqsOf(AreaStates, NumAreas) \cup SeqsOf(AreaStates, NumAreas - 1)}

ZonePart ==
    {[has |-> FALSE, stamp |-> FALSE, v |-> <<>>]} \cup
    {[has |-> TRUE, stamp |-> TRUE, v |-> x] : x \in SeqsOf(ZoneStates, NumZones)} \cup
    {[has |-> TRUE, stamp |-> FALSE, v |-> [i \in 1..NumZones |-> "a"]]}

PowerPart ==
    {[has |-> FALSE, v |-> None]} \cup {[has |-> TRUE, v |-> p] : p \in PowerVals}

AlarmDatas ==
    { [ present |-> TRUE, has_areas |-> a.has, areas |-> a.v,
        has_zones |-> z.has, zones |-> z.v, has_zstamp |-> z.stamp,
        has_power |-> p.has, power |-> p.v ] :
      a \in AreaPart, z \in ZonePart, p \in PowerPart }

\* A POLL result for the device: not listed, listed without deviceState, or
\* listed with a complete deviceState
Snapshots ==
    {NoSnapshot, [NoSnapshot EXCEPT !.device = TRUE]} \cup
    { [ device |-> TRUE, has_state |-> TRUE, areas |-> ar, zones |-> zs,
        has_power |-> TRUE, power |-> pw ] :
      ar \in SeqsOf(AreaStates, NumAreas), zs \in SeqsOf(ZoneStates, NumZones),
      pw \in PowerVals }

ZonesProcessed(m) == m.has_zones /\ m.has_zstamp

\* Some index present in both lists changed its value (handler.py 127-131,
\* 161-165)
Changed(prev, new) ==
    \E i \in 1..Len(new) : i <= Len(prev) /\ prev[i] # new[i]

\* OlarmMessageHandler._process_alarm_payload on a payload with a data field:
\* the handler's dictionaries for the device and the signals it dispatches
ProcessAlarmPayload(h, m) ==
    [ device_state  |-> m,
      device_areas  |-> IF m.has_areas THEN m.areas ELSE h.device_areas,
      device_zones  |-> IF ZonesProcessed(m) THEN m.zones ELSE h.device_zones,
      area_signals  |-> IF m.has_areas THEN 1..Len(m.areas) ELSE {},
      zone_signals  |-> IF ZonesProcessed(m) THEN 1..Len(m.zones) ELSE {} ]

\* The local flags areas_updated and zones_updated of _process_alarm_payload
\* (they only select a log line)
AreasUpdated(h, m) == m.has_areas /\ Changed(h.device_areas, m.areas)
ZonesUpdated(h, m) == ZonesProcessed(m) /\ Changed(h.device_zones, m.zones)

\* handle_mqtt_update of the area entities (alarm_control_panel.py 174-199)
\* and of the zone entities (binary_sensor.py 115-133) on those signals
EntitiesAfter(e, m) ==
    [ e EXCEPT
        !.area = [a \in Areas |->
                    IF e.mqtt_enabled /\ m.has_areas /\ a <= Len(m.areas)
                    THEN m.areas[a] ELSE e.area[a]],
        !.zone = [z \in Zones |->
                    IF e.mqtt_enabled /\ ZonesProcessed(m) /\ z <= Len(m.zones)
                    THEN m.zones[z] ELSE e.zone[z]] ]

Str(b) == IF b THEN "True" ELSE "False"

\* What _get_olarm_state would be if coordinator data were preferred
GetOlarmStatePollFirst(a) ==
    IF coordinator.device /\ coordinator.has_state /\ Len(coordinator.areas) >= a
    THEN coordinator.areas[a]
    ELSE IF entity.mqtt_enabled /\ entity.area[a] # None THEN entity.area[a]
    ELSE None

\* OlarmAlarmPanel._get_olarm_state (alarm_control_panel.py 211-235)
GetOlarmState(a) ==
    IF entity.mqtt_enabled /\ entity.area[a] # None THEN entity.area[a]
    ELSE IF ~entity.api_enabled THEN "disarm"
    ELSE IF ~coordinator.device THEN None
    ELSE IF ~coordinator.has_state \/ Len(coordinator.areas) < a THEN None
    ELSE coordinator.areas[a]

\* OlarmZoneSensor.is_on (binary_sensor.py 135-159)
IsOn(z) ==
    IF entity.mqtt_enabled /\ entity.zone[z] # None THEN Str(entity.zone[z] = "a")
    ELSE IF ~coordinator.device THEN None
    ELSE IF ~coordinator.has_state \/ Len(coordinator.zones) < z THEN None
    ELSE Str(coordinator.zones[z] = "a")

\* OlarmAlarmPanel.extra_state_attributes, ac_power
\* (alarm_control_panel.py 237-274)
AcPower ==
    IF entity.mqtt_enabled /\ handler.device_state.present
       /\ handler.device_state.has_power
    THEN Str(handler.device_state.power = "1")
    ELSE IF ~entity.api_enabled THEN None
    ELSE IF ~coordinator.device THEN None
    ELSE IF coordinator.has_state /\ coordinator.has_power
         THEN Str(coordinator.power = "1")
    ELSE None

\* What a snapshot says about each area, zone and the power
DerivedOfStream(m) ==
    [ source |-> "STREAM",
      area |-> [a \in Areas |->
                  IF m.has_areas /\ a <= Len(m.areas) THEN m.areas[a] ELSE None],
      zone |-> [z \in Zones |->
                  IF m.has_zones /\ z <= Len(m.zones) THEN m.zones[z] ELSE None],
      power |-> IF m.has_power THEN m.power ELSE None ]

DerivedOfPoll(sn) ==
    [ source |-> "POLL",
      area |-> [a \in Areas |->
                  IF sn.has_state /\ a <= Len(sn.areas) THEN sn.areas[a] ELSE None],
      zone |-> [z \in Zones |->
                  IF sn.has_state /\ z <= Len(sn.zones) THEN sn.zones[z] ELSE None],
      power |-> IF sn.has_state /\ sn.has_power THEN sn.power ELSE None ]

\* An alarmPayload arrives for the device: process_mqtt_message,
\* _process_alarm_payload and the entities' signal handlers.  What it adds
\* to received and to inbox is left to the specification that uses it.
StreamEvent(m) ==
    /\ handler' = ProcessAlarmPayload(handler, m)
    /\ entity' = EntitiesAfter(entity, m)
    /\ applied' =
         [ applied EXCEPT
             !.area = [a \in Areas |->
                         IF m.has_areas /\ a <= Len(m.areas)
                         THEN m.areas[a] ELSE @[a]],
             !.zone = [z \in Zones |->
                         IF ZonesProcessed(m) /\ z <= Len(m.zones)
                         THEN m.zones[z] ELSE @[z]],
             !.stream_power = IF m.has_power THEN m.power ELSE None,
             !.last = DerivedOfStream(m) ]
    /\ UNCHANGED <<coordinator, devices, token, conn_vars, cmd_vars>>

\* OlarmDataUpdateCoordinator._async_update_data returns: coordinator.data is
\* replaced by the devices of the answer
PollResult(sn) ==
    /\ coordinator' = sn
    /\ applied' = [applied EXCEPT !.poll = DerivedOfPoll(sn),
                                  !.last = DerivedOfPoll(sn)]
    /\ UNCHANGED <<handler, entity, received, devices, inbox, token,
                   conn_vars, cmd_vars>>

\* Entities are created from the first refresh of the coordinator, which
\* lists the device (alarm_control_panel.py 77, binary_sensor.py 36)
InitStore ==
    /\ has_paho = TRUE
    /\ ClientConstructed
    /\ NoPanel
    /\ \E en \in BOOLEAN, api \in BOOLEAN, sn \in Snapshots :
          /\ sn.device
          /\ handler = [device_state |-> NoAlarmData, device_areas |-> <<>>,
                        device_zones |-> <<>>, area_signals |-> {},
                        zone_signals |-> {}]
          /\ entity = [area |-> NoAreaMap, zone |-> NoZoneMap,
                       mqtt_enabled |-> en, api_enabled |-> api]
          /\ coordinator = sn
          /\ applied = [area |-> NoAreaMap, zone |-> NoZoneMap,
                        stream_power |-> None, poll |-> DerivedOfPoll(sn),
                        last |-> DerivedOfPoll(sn)]
    /\ received = NothingReceived
    /\ devices = NoDevices
    /\ inbox = NoInbox
    /\ token = TokensAtSetup

NextStore ==
    \/ \E m \in AlarmDatas : StreamEvent(m) /\ UNCHANGED <<received, inbox>>
    \/ \E sn \in Snapshots : PollResult(sn)

SpecStore == InitStore /\ [][NextStore]_vars

OnOf(v) == IF v = None THEN None ELSE Str(v = "a")
PowerOf(v) == IF v = None THEN None ELSE Str(v = "1")

max_reconnect_attempts == 5
reconnect_delay == 5
connection_timeout == 15

\* range(connection_timeout * 2): polls of is_connected, 0.5 s apart
Polls == connection_timeout * 2

Topic == "so/app/v1/imei"

\* loop_blocked when the blocked call is disconnect(), which is no task
DisconnectCall == MaxTasks + 1

RemoveAt(seq, k) ==
    [j \in 1..(Len(seq) - 1) |-> IF j < k THEN seq[j] ELSE seq[j + 1]]

\* A reference into a list after element k went away
Moved(ref, k) == IF ref > k THEN ref - 1 ELSE ref

Task(kind, pc, n, d) ==
    [kind |-> kind, pc |-> pc, i |-> 0, delay |-> d, attempt |-> n]

\* The exponent off by one
ReconnectDelayOffByOne(n) == reconnect_delay * (2 ^ n)

\* delay = self.reconnect_delay * (2 ** (self.reconnect_attempts - 1)), with
\* n the counter after its increment
ReconnectDelay(n) == reconnect_delay * (2 ^ (n - 1))

\* The limit compared with > instead of >=
ScheduleReconnectPastMax ==
    IF reconnect_attempts > max_reconnect_attempts
    THEN /\ reconnect_task' = 0
         /\ gave_up' = TRUE
         /\ UNCHANGED <<reconnect_attempts, tasks>>
    ELSE /\ Len(tasks) < MaxTasks
         /\ reconnect_attempts' = reconnect_attempts + 1
         /\ tasks' = Append(tasks, Task("delayed", "sched", reconnect_attempts + 1,
                                        ReconnectDelay(reconnect_attempts + 1)))
         /\ UNCHANGED <<reconnect_task, gave_up>>

\* No limit at all
ScheduleReconnectUncapped ==
    /\ Len(tasks) < MaxTasks
    /\ reconnect_attempts' = reconnect_attempts + 1
    /\ tasks' = Append(tasks, Task("delayed", "sched", reconnect_attempts + 1,
                                   ReconnectDelay(reconnect_attempts + 1)))
    /\ UNCHANGED <<reconnect_task, gave_up>>

\* schedule_reconnect, called from a paho callback: the coroutine is handed
\* to the loop and starts when the loop gets to it
ScheduleReconnect ==
    IF reconnect_attempts >= max_reconnect_attempts
    THEN /\ reconnect_task' = 0
         /\ gave_up' = TRUE
         /\ UNCHANGED <<reconnect_attempts, tasks>>
    ELSE /\ Len(tasks) < MaxTasks
         /\ reconnect_attempts' = reconnect_attempts + 1
         /\ tasks' = Append(tasks, Task("delayed", "sched", reconnect_attempts + 1,
                                        ReconnectDelay(reconnect_attempts + 1)))
         /\ UNCHANGED <<reconnect_task, gave_up>>

\* "if self.reconnect_task is None: self.schedule_reconnect()"
MaybeScheduleReconnect ==
    IF reconnect_task = 0
    THEN ScheduleReconnect
    ELSE UNCHANGED <<reconnect_task, reconnect_attempts, tasks, gave_up>>

\* The coroutine of task t ends: a _delayed_reconnect clears reconnect_task
\* in its finally; the lock is released when t holds it
TaskEnds(t) ==
    /\ tasks' = RemoveAt(tasks, t)
    /\ reconnect_task' = IF tasks[t].kind = "delayed" THEN 0
                         ELSE Moved(reconnect_task, t)
    /\ connection_lock' = IF connection_lock = t THEN 0
                          ELSE Moved(connection_lock, t)

\* connect() of task t returns v to its caller, which runs on: the setup loop
\* of async_setup_entry stores the client and starts the timer on True
Return(t, v) ==
    /\ TaskEnds(t)
    /\ fleet' = IF tasks[t].kind = "setup"
                THEN [fleet EXCEPT !.setup = "done",
                                   !.in_clients = (v = "true"),
                                   !.timer = (v = "true")]
                ELSE fleet

\* Client c goes away: its object is garbage or its thread has ended
ClientsWithout(c) == RemoveAt(clients, c)
RunningWithout(c) == {Moved(x, c) : x \in loop_running \ {c}}

\* self.mqtt_client is about to be rebound: the object it names is garbage
\* unless its network thread runs
Garbage == mqtt_client # 0 /\ mqtt_client \notin loop_running
Rebound(cl) == IF Garbage THEN RemoveAt(cl, mqtt_client) ELSE cl
ReboundRunning == IF Garbage THEN RunningWithout(mqtt_client) ELSE loop_running

\* async_setup_entry reaches "connected = await mqtt_client.connect()" for
\* the device
SetupEntry ==
    /\ loop_blocked = 0
    /\ fleet.setup = "new"
    /\ Len(tasks) < MaxTasks
    /\ fleet' = [fleet EXCEPT !.setup = "connecting"]
    /\ tasks' = Append(tasks, Task("setup", "start", 0, 0))
    /\ UNCHANGED <<is_connected, mqtt_client, subscribed_topics,
                   reconnect_attempts, reconnect_task, connection_lock,
                   has_paho, loop_blocked, clients, loop_running,
                   status_published,
                   gave_up>>
    /\ UNCHANGED <<cmd_vars, store_vars>>

ConnectOutcomes == {"ok", "exc_ctor", "exc_setup"}

\* connect() from its entry to its first await or its return.  outcome is
\* what the paho calls of lines 106-127 do: all succeed, the constructor
\* raises, or a call after the assignment of self.mqtt_client raises.
ConnectEnter(t, outcome) ==
    /\ loop_blocked = 0
    /\ tasks[t].pc = "start"
    /\ IF ~has_paho THEN
          /\ outcome = "ok"
          /\ Return(t, "false")
          /\ UNCHANGED <<mqtt_client, loop_blocked, clients, loop_running>>
       ELSE IF connection_lock # 0 THEN
          \* Lock.acquire() blocks the thread of the event loop
          /\ outcome = "ok"
          /\ tasks' = [tasks EXCEPT ![t].pc = "lock_wait"]
          /\ loop_blocked' = t
          /\ UNCHANGED <<mqtt_client, connection_lock, clients, loop_running,
                         fleet, reconnect_task>>
       ELSE IF is_connected THEN
          /\ outcome = "ok"
          /\ Return(t, "true")
          /\ UNCHANGED <<mqtt_client, loop_blocked, clients, loop_running>>
       ELSE IF outcome = "exc_ctor" THEN
          /\ Return(t, "false")
          /\ UNCHANGED <<mqtt_client, loop_blocked, clients, loop_running>>
       ELSE
          /\ Len(Rebound(clients)) < MaxClients
          /\ mqtt_client' = Len(Rebound(clients)) + 1
          /\ IF outcome = "exc_setup"
             THEN /\ clients' = Append(Rebound(clients),
                                       [sess |-> "closed", tpc |-> "idle"])
                  /\ loop_running' = ReboundRunning
                  /\ Return(t, "false")
             ELSE /\ clients' = Append(Rebound(clients),
                                       [sess |-> "connecting", tpc |-> "idle"])
                  /\ loop_running' = ReboundRunning \cup {Len(Rebound(clients)) + 1}
                  /\ connection_lock' = t
                  /\ tasks' = [tasks EXCEPT ![t].pc = "polling"]
                  /\ UNCHANGED <<fleet, reconnect_task>>
          /\ UNCHANGED loop_blocked
    /\ UNCHANGED <<is_connected, subscribed_topics, reconnect_attempts,
                   has_paho, status_published,
                   gave_up>>
    /\ UNCHANGED <<cmd_vars, store_vars>>

\* One turn of the wait loop of connect(): the check of is_connected, then
\* either the return or the next sleep of 0.5 s
ConnectPoll(t) ==
    /\ loop_blocked = 0
    /\ tasks[t].pc = "polling"
    /\ tasks[t].i < Polls
    /\ IF is_connected
       THEN Return(t, "true")
       ELSE /\ tasks' = [tasks EXCEPT ![t].i = @ + 1]
            /\ UNCHANGED <<connection_lock, fleet, reconnect_task>>
    /\ UNCHANGED <<is_connected, mqtt_client, subscribed_topics,
                   reconnect_attempts, has_paho, loop_blocked, clients,
                   loop_running, status_published,
                   gave_up>>
    /\ UNCHANGED <<cmd_vars, store_vars>>

\* The wait loop ran out: loop_stop() joins the network thread, so it waits
\* for a callback in progress; then self.mqtt_client = None, return False
ConnectTimeout(t) ==
    /\ loop_blocked = 0
    /\ tasks[t].pc = "polling"
    /\ tasks[t].i = Polls
    /\ clients[mqtt_client].tpc = "idle"
    /\ loop_running' = RunningWithout(mqtt_client)
    /\ clients' = ClientsWithout(mqtt_client)
    /\ mqtt_client' = 0
    /\ Return(t, "false")
    /\ UNCHANGED <<is_connected, subscribed_topics, reconnect_attempts,
                   has_paho, loop_blocked, status_published,
                   gave_up>>
    /\ UNCHANGED <<cmd_vars, store_vars>>

\* _delayed_reconnect starts on the loop: reconnect_task is set only now
DelayedReconnectStart(t) ==
    /\ loop_blocked = 0
    /\ tasks[t].pc = "sched"
    /\ reconnect_task' = t
    /\ tasks' = [tasks EXCEPT ![t].pc = "sleep"]
    /\ UNCHANGED <<is_connected, mqtt_client, subscribed_topics,
                   reconnect_attempts, connection_lock, has_paho, loop_blocked,
                   clients, loop_running, fleet, status_published,
                   gave_up>>
    /\ UNCHANGED <<cmd_vars, store_vars>>

\* _delayed_reconnect after its sleep: gives up when connected, else goes on
\* to "await self.connect()"
DelayedReconnectWake(t) ==
    /\ loop_blocked = 0
    /\ tasks[t].pc = "sleep"
    /\ IF is_connected
       THEN TaskEnds(t)
       ELSE /\ tasks' = [tasks EXCEPT ![t] = Task("delayed", "start", 0, 0)]
            /\ UNCHANGED <<reconnect_task, connection_lock>>
    /\ UNCHANGED <<is_connected, mqtt_client, subscribed_topics,
                   reconnect_attempts, has_paho, loop_blocked, clients,
                   loop_running, fleet, status_published,
                   gave_up>>
    /\ UNCHANGED <<cmd_vars, store_vars>>

\* The body shared by check_mqtt_periodically and async_check_mqtt_status for
\* the client: get_status(), then publish_status_request() when connected,
\* else hass.async_create_task(client.connect())
\* A status that takes a bound transport client for a connection
GetStatusFromClient ==
    [is_connected |-> mqtt_client # 0,
     subscribed_topics |-> subscribed_topics,
     reconnect_attempts |-> reconnect_attempts]

\* OlarmMqttClient.get_status (mqtt.py 385-414): the dictionary built from
\* the fields as they are; nothing is assigned, no lock is taken
GetStatus ==
    [is_connected |-> is_connected,
     subscribed_topics |-> subscribed_topics,
     reconnect_attempts |-> reconnect_attempts]

CheckClient ==
    IF GetStatus.is_connected
    THEN UNCHANGED tasks
    ELSE /\ Len(tasks) < MaxTasks
         /\ tasks' = Append(tasks, Task("check", "start", 0, 0))

\* A tick of the timer of async_track_time_interval (and the run "right now")
CheckMqttPeriodically ==
    /\ loop_blocked = 0
    /\ fleet.timer
    /\ CheckClient
    /\ UNCHANGED <<is_connected, mqtt_client, subscribed_topics,
                   reconnect_attempts, reconnect_task, connection_lock,
                   has_paho, loop_blocked, clients, loop_running, fleet,
                   status_published,
                   gave_up>>
    /\ UNCHANGED <<cmd_vars, store_vars>>

\* The service check_mqtt_status; it keeps its reference to mqtt_clients
AsyncCheckMqttStatus ==
    /\ loop_blocked = 0
    /\ fleet.in_clients
    /\ CheckClient
    /\ UNCHANGED <<is_connected, mqtt_client, subscribed_topics,
                   reconnect_attempts, reconnect_task, connection_lock,
                   has_paho, loop_blocked, clients, loop_running, fleet,
                   status_published,
                   gave_up>>
    /\ UNCHANGED <<cmd_vars, store_vars>>

\* disconnect(), called on the event loop.  loop_stop() joins the network
\* thread; self.mqtt_client keeps the stopped client.
Disconnect ==
    IF connection_lock # 0
    THEN /\ loop_blocked' = DisconnectCall
         /\ UNCHANGED <<is_connected, subscribed_topics, clients, loop_running,
                        status_published>>
    ELSE IF mqtt_client # 0
    THEN /\ clients[mqtt_client].tpc = "idle"
         /\ loop_running' = loop_running \ {mqtt_client}
         /\ clients' = [clients EXCEPT ![mqtt_client].sess = "closed"]
         /\ is_connected' = FALSE
         /\ subscribed_topics' = {}
         /\ status_published' = 0
         /\ UNCHANGED loop_blocked
    ELSE UNCHANGED <<is_connected, subscribed_topics, clients, loop_running,
                     loop_blocked, status_published>>

\* async_unload_entry: cancel the timer, then disconnect the stored clients
AsyncUnloadEntry ==
    /\ loop_blocked = 0
    /\ fleet.setup = "done"
    /\ ~fleet.unloaded
    /\ IF fleet.in_clients
       THEN /\ Disconnect
            /\ fleet' = [fleet EXCEPT !.timer = FALSE,
                                      !.unloaded = (connection_lock = 0)]
       ELSE /\ fleet' = [fleet EXCEPT !.unloaded = TRUE]
            /\ UNCHANGED <<is_connected, subscribed_topics, clients,
                           loop_running, loop_blocked, status_published>>
    /\ UNCHANGED <<mqtt_client, reconnect_attempts, reconnect_task,
                   connection_lock, has_paho, tasks, gave_up>>
    /\ UNCHANGED <<cmd_vars, store_vars>>

\* on_connect without "self.reconnect_attempts = 0"
OnConnectKeepsAttempts(c, rc) ==
    /\ c \in loop_running
    /\ clients[c] = [sess |-> "connecting", tpc |-> "idle"]
    /\ IF rc = 0
       THEN /\ is_connected' = TRUE
            /\ status_published' = 0
            /\ clients' = [clients EXCEPT ![c] = [sess |-> "up", tpc |-> "on_connect"]]
            /\ UNCHANGED <<reconnect_task, reconnect_attempts, tasks, gave_up>>
       ELSE /\ is_connected' = FALSE
            /\ MaybeScheduleReconnect
            /\ UNCHANGED <<status_published, clients>>
    /\ UNCHANGED <<mqtt_client, subscribed_topics, connection_lock, has_paho,
                   loop_blocked, loop_running, fleet>>
    /\ UNCHANGED <<cmd_vars, store_vars>>

\* on_connect in the network thread of client c, up to "self.is_connected =
\* True" (rc = 0) or the whole else branch (rc # 0)
OnConnect(c, rc) ==
    /\ c \in loop_running
    /\ clients[c] = [sess |-> "connecting", tpc |-> "idle"]
    /\ IF rc = 0
       THEN /\ reconnect_attempts' = 0
            /\ gave_up' = FALSE
            /\ is_connected' = TRUE
            /\ status_published' = 0
            /\ clients' = [clients EXCEPT ![c] = [sess |-> "up", tpc |-> "on_connect"]]
            /\ UNCHANGED <<reconnect_task, tasks>>
       ELSE /\ is_connected' = FALSE
            /\ MaybeScheduleReconnect
            /\ UNCHANGED <<status_published, clients>>
    /\ UNCHANGED <<mqtt_client, subscribed_topics, connection_lock, has_paho,
                   loop_blocked, loop_running, fleet>>
    /\ UNCHANGED <<cmd_vars, store_vars>>

\* The rest of on_connect for rc = 0: subscribe through self.mqtt_client (an
\* AttributeError when it is None ends the network thread), then
\* publish_status_request(), whose publish gives rc
OnConnectSubscribe(c, rc) ==
    /\ clients[c].tpc = "on_connect"
    /\ IF mqtt_client = 0
       THEN /\ rc = "ok"
            /\ loop_running' = RunningWithout(c)
            /\ clients' = ClientsWithout(c)
            /\ UNCHANGED <<subscribed_topics, status_published>>
       ELSE /\ subscribed_topics' = subscribed_topics \cup {Topic}
            /\ clients' = [clients EXCEPT ![c].tpc = "idle"]
            /\ rc = "ok" => (is_connected /\ clients[mqtt_client].sess = "up")
            /\ status_published' =
                  IF PublishReturn(is_connected, mqtt_client, rc) THEN 1 ELSE 0
            /\ UNCHANGED loop_running
    /\ UNCHANGED <<is_connected, mqtt_client, reconnect_attempts,
                   reconnect_task, connection_lock, has_paho, tasks,
                   loop_blocked, fleet, gave_up>>
    /\ UNCHANGED <<cmd_vars, store_vars>>

\* on_disconnect with the reconnect scheduled whatever rc is
OnDisconnectAlwaysSchedules(c, rc) ==
    /\ c \in loop_running
    /\ clients[c] = [sess |-> "up", tpc |-> "idle"]
    /\ is_connected' = FALSE
    /\ subscribed_topics' = {}
    /\ status_published' = 0
    /\ IF rc = 0
       THEN /\ IF mqtt_client = c
               THEN /\ clients' = [clients EXCEPT ![c].sess = "closed"]
                    /\ loop_running' = loop_running \ {c}
                    /\ UNCHANGED mqtt_client
               ELSE /\ clients' = ClientsWithout(c)
                    /\ loop_running' = RunningWithout(c)
                    /\ mqtt_client' = Moved(mqtt_client, c)
            /\ MaybeScheduleReconnect
       ELSE /\ clients' = [clients EXCEPT ![c].sess = "connecting"]
            /\ MaybeScheduleReconnect
            /\ UNCHANGED <<loop_running, mqtt_client>>
    /\ UNCHANGED <<connection_lock, has_paho, loop_blocked, fleet>>
    /\ UNCHANGED <<cmd_vars, store_vars>>

\* on_disconnect in the network thread of client c.  After rc # 0 paho's
\* loop reconnects the same client; after rc = 0 the thread ends.
OnDisconnect(c, rc) ==
    /\ c \in loop_running
    /\ clients[c] = [sess |-> "up", tpc |-> "idle"]
    /\ is_connected' = FALSE
    /\ subscribed_topics' = {}
    /\ status_published' = 0
    /\ IF rc = 0
       THEN /\ IF mqtt_client = c
               THEN /\ clients' = [clients EXCEPT ![c].sess = "closed"]
                    /\ loop_running' = loop_running \ {c}
                    /\ UNCHANGED mqtt_client
               ELSE /\ clients' = ClientsWithout(c)
                    /\ loop_running' = RunningWithout(c)
                    /\ mqtt_client' = Moved(mqtt_client, c)
            /\ UNCHANGED <<reconnect_task, reconnect_attempts, tasks, gave_up>>
       ELSE /\ clients' = [clients EXCEPT ![c].sess = "connecting"]
            /\ MaybeScheduleReconnect
            /\ UNCHANGED <<loop_running, mqtt_client>>
    /\ UNCHANGED <<connection_lock, has_paho, loop_blocked, fleet>>
    /\ UNCHANGED <<cmd_vars, store_vars>>

Init ==
    /\ has_paho \in BOOLEAN
    /\ ClientConstructed
    /\ NoPanel
    /\ StoreConstructed

Next ==
    \/ SetupEntry
    \/ \E t \in DOMAIN tasks, o \in ConnectOutcomes : ConnectEnter(t, o)
    \/ \E t \in DOMAIN tasks : ConnectPoll(t)
    \/ \E t \in DOMAIN tasks : ConnectTimeout(t)
    \/ \E t \in DOMAIN tasks : DelayedReconnectStart(t)
    \/ \E t \in DOMAIN tasks : DelayedReconnectWake(t)
    \/ CheckMqttPeriodically
    \/ AsyncCheckMqttStatus
    \/ AsyncUnloadEntry
    \/ \E c \in DOMAIN clients, rc \in {0, 1} : OnConnect(c, rc)
    \/ \E c \in DOMAIN clients, rc \in PublishRcs : OnConnectSubscribe(c, rc)
    \/ \E c \in DOMAIN clients, rc \in {0, 1} : OnDisconnect(c, rc)

Spec == Init /\ [][Next]_vars

\* A step in which a connect() call returns True: line 98 (already
\* connected) or line 135 (seen by the wait loop)
ConnectReturnsTrue ==
    \E t \in DOMAIN tasks :
        /\ is_connected
        /\ \/ connection_lock = 0 /\ ConnectEnter(t, "ok")
           \/ ConnectPoll(t)

\* C6: at the moment connect() returns True the client reports connected and
\* exactly one status request has been published for this establishment of
\* the connection.
C6_ConnectedAndStatusRequested ==
    [][ConnectReturnsTrue => (is_connected' /\ status_published' = 1)]_vars

\* C7: connect() on a CONNECTED connection returns True at once, creates no
\* transport session and leaves session, subscriptions and counters as they
\* were.
C7_ConnectIdempotentWhenConnected ==
    [][\A t \in DOMAIN tasks :
          (is_connected /\ ConnectEnter(t, "ok")) =>
             /\ tasks' = RemoveAt(tasks, t)
             /\ loop_blocked' = 0
             /\ UNCHANGED <<is_connected, mqtt_client, clients, loop_running,
                            subscribed_topics, reconnect_attempts>>]_vars

InConnect(t) == tasks[t].pc \in {"polling", "lock_wait"}

\* C8: concurrent connect() calls serialize through the mutex: at most one is
\* past it and creating a session, and a call that waits for it waits for a
\* holder that can go on to finish, so that the later call sees its outcome.
C8_ConnectCallsSerialize ==
    /\ Cardinality({t \in DOMAIN tasks : tasks[t].pc = "polling"}) <= 1
    /\ \A t \in DOMAIN tasks :
          tasks[t].pc = "lock_wait" =>
             ~(connection_lock \in DOMAIN tasks
               /\ tasks[connection_lock].pc = "polling"
               /\ loop_blocked # 0)

\* C9: every connect() call returns within its bounded wait: no call has
\* polled more than Polls times, and no call is outstanding while the thread
\* that must run it is blocked on the mutex (by another connect() or by
\* disconnect()).
C9_ConnectReturnsWithinBoundedWait ==
    \A t \in DOMAIN tasks :
        InConnect(t) => (tasks[t].i <= Polls /\ loop_blocked = 0)

Backoff == <<5, 10, 20, 40, 80>>

\* C10: the delay scheduled for reconnect attempt n, 1 <= n <= 5, is
\* 5 * 2^(n-1) seconds (5, 10, 20, 40, 80), n being the attempt counter after
\* its increment.
C10_BackoffDelays ==
    [][(Len(tasks') = Len(tasks) + 1 /\ tasks'[Len(tasks')].kind = "delayed") =>
          LET n == reconnect_attempts'
              new == tasks'[Len(tasks')]
          IN  /\ n = reconnect_attempts + 1
              /\ n \in 1..max_reconnect_attempts
              /\ new.attempt = n
              /\ new.delay = Backoff[n]]_vars

\* Reconnects were scheduled for the first and for the fifth attempt
C10_Witness ==
    \E t \in DOMAIN tasks :
        /\ tasks[t].kind = "delayed"
        /\ tasks[t].attempt = 5
        /\ tasks[t].delay = 80
        /\ reconnect_attempts = 5

\* An unexpected drop or a refused connect reported by the transport
DropOrConnectFailure ==
    \E c \in DOMAIN clients : OnConnect(c, 1) \/ OnDisconnect(c, 1)

\* C11: with the attempt counter at max_reconnect_attempts, a further
\* unexpected drop or connect failure schedules no reconnect and leaves the
\* counter where it is; the client is not connected, and it has given up
\* unless the reconnect of the last attempt is still running.
C11_NoReconnectPastMax ==
    [][(reconnect_attempts >= max_reconnect_attempts /\ DropOrConnectFailure) =>
          /\ tasks' = tasks
          /\ reconnect_attempts' = max_reconnect_attempts
          /\ ~is_connected'
          /\ (reconnect_task = 0 => gave_up')]_vars

\* The client has given up after a failure that followed the fifth attempt
C11_Witness ==
    /\ gave_up
    /\ reconnect_attempts = max_reconnect_attempts
    /\ ~is_connected
    /\ \A t \in DOMAIN tasks : tasks[t].kind # "delayed"

\* connect() of task t is called by a caller other than _delayed_reconnect:
\* async_setup_entry or one of the two health checks
ExplicitConnect(t) == tasks[t].kind # "delayed" /\ ConnectEnter(t, "ok")

\* C12: after the client has given up, an explicit connect() call resets the
\* attempt counter, so that later failures schedule reconnects again from
\* attempt 1.
C12_ExplicitConnectResetsAttempts ==
    [][\A t \in DOMAIN tasks :
          (gave_up /\ ExplicitConnect(t)) => reconnect_attempts' = 0]_vars

\* The _delayed_reconnect coroutines that have not fired yet: handed to the
\* loop and not started, or in their sleep
PendingReconnects ==
    {t \in DOMAIN tasks :
        tasks[t].kind = "delayed" /\ tasks[t].pc \in {"sched", "sleep"}}

\* C13: at most one reconnect timer is pending in every reachable state: a
\* failure callback that arrives while one is scheduled and has not fired,
\* started or not, schedules nothing and leaves the counter alone.
C13_AtMostOnePendingReconnect == Cardinality(PendingReconnects) <= 1

\* A step in which the broker accepts the connection of some client: its
\* connect callback runs with result code 0
SessionEstablished == \E c \in DOMAIN clients : OnConnect(c, 0)

\* C14: every successful transition to CONNECTED (connect callback with
\* result code 0) sets the reconnect attempt counter to 0, whatever it was.
C14_ConnectedResetsAttempts ==
    [][SessionEstablished => (is_connected' /\ reconnect_attempts' = 0)]_vars

\* The counter is 0 in the middle of on_connect while the reconnect that was
\* scheduled as attempt 3 is still around: the callback reset it from 3
C14_Witness ==
    /\ is_connected
    /\ reconnect_attempts = 0
    /\ \E c \in DOMAIN clients : clients[c].tpc = "on_connect"
    /\ \E t \in DOMAIN tasks : tasks[t].attempt = 3

\* A step in which async_unload_entry calls disconnect() on the client
DisconnectCalled == fleet.in_clients /\ AsyncUnloadEntry

\* The transport reports the end of an established session, clean or not
TransportDrop ==
    \E c \in DOMAIN clients, rc \in {0, 1} : OnDisconnect(c, rc)

\* C15: every transition out of CONNECTED, reported by the transport (clean
\* or unexpected) or made by a disconnect() that got the mutex, leaves the
\* connected flag false and the subscription set empty.
C15_DisconnectedClearsFlagAndTopics ==
    [][(is_connected /\ (TransportDrop \/ (connection_lock = 0 /\ DisconnectCalled))) =>
          (~is_connected' /\ subscribed_topics' = {})]_vars

\* on_disconnect of client c with code rc can end with the attempt counter at
\* n and k coroutines on the loop, the client disconnected
DropLeadsTo(c, rc, n, k) ==
    ENABLED (/\ OnDisconnect(c, rc)
             /\ ~is_connected'
             /\ subscribed_topics' = {}
             /\ reconnect_attempts' = n
             /\ Len(tasks') = k)

\* C16 as stated: from the same state a drop reported as clean (code 0) and
\* a drop reported as an error (code # 0) lead to the same connection state,
\* the scheduled reconnects and the attempt counter included.
C16_DropReasonIrrelevant ==
    \A c \in DOMAIN clients, n \in 0..max_reconnect_attempts, k \in 0..MaxTasks :
        Len(tasks) < MaxTasks =>
            (DropLeadsTo(c, 0, n, k) <=> DropLeadsTo(c, 1, n, k))

\* C16: both kinds of drop leave the flag false and the subscriptions empty;
\* a clean drop schedules nothing and keeps the counter, an error drop
\* schedules one delayed reconnect and increments the counter when no
\* reconnect task is set and the counter is below max_reconnect_attempts.
C16_OnlyErrorDropReconnects ==
    [][\A c \in DOMAIN clients :
          /\ OnDisconnect(c, 0) =>
                /\ ~is_connected' /\ subscribed_topics' = {}
                /\ UNCHANGED <<reconnect_attempts, tasks>>
          /\ OnDisconnect(c, 1) =>
                /\ ~is_connected' /\ subscribed_topics' = {}
                /\ IF reconnect_task = 0 /\ reconnect_attempts < max_reconnect_attempts
                   THEN /\ reconnect_attempts' = reconnect_attempts + 1
                        /\ Len(tasks') = Len(tasks) + 1
                        /\ tasks'[Len(tasks')].kind = "delayed"
                   ELSE UNCHANGED <<reconnect_attempts, tasks>>]_vars

\* The session that the setup established dropped with an error: its client
\* is retrying, the first reconnect is scheduled
C16_Witness ==
    /\ fleet.timer
    /\ ~is_connected
    /\ subscribed_topics = {}
    /\ mqtt_client = 1 /\ loop_running = {1}
    /\ clients = <<[sess |-> "connecting", tpc |-> "idle"]>>
    /\ reconnect_attempts = 1
    /\ tasks = <<Task("delayed", "sched", 1, ReconnectDelay(1))>>

\* C17: disconnect() can be called in any state, and again after itself:
\* each call returns without an error and leaves the connection
\* DISCONNECTED, the connected flag false and no subscriptions.
C17_DisconnectLeavesDisconnected ==
    [][DisconnectCalled =>
          /\ loop_blocked' = 0
          /\ ~is_connected'
          /\ subscribed_topics' = {}]_vars

\* C18: once disconnect() has run, no reconnect timer scheduled before it
\* remains pending: a delayed reconnect scheduled earlier cannot bring the
\* session back.
C18_DisconnectCancelsReconnect ==
    [][(DisconnectCalled /\ loop_blocked' = 0) => PendingReconnects' = {}]_vars

\* C19: disconnect() called while a connect() on the client is in its wait
\* loop goes through without blocking the event loop: the loop's thread is
\* never stuck in the Lock.acquire() of disconnect().
C19_DisconnectDuringConnectCompletes ==
    ~(/\ loop_blocked = DisconnectCall
      /\ \E t \in DOMAIN tasks : tasks[t].pc = "polling" /\ connection_lock = t)

\* What a publish call owes to the connection it found and to the answer rc
\* of the transport: ret is its return value, handed whether the transport
\* took a message
PublishContract(ret, handed, rc) ==
    /\ ~is_connected => (~ret /\ ~handed)
    /\ ret <=> (is_connected /\ handed /\ rc = "ok")
    /\ (is_connected /\ mqtt_client # 0) => (ret <=> rc = "ok")

\* C20: publish_status_request() and publish_action(cmd, area) return False
\* and hand nothing to the transport when the client is not connected; when
\* it is connected they return True exactly when the publish was accepted
\* (result code 0), False on an error code or an exception.
C20_PublishGatedOnConnection ==
    [][\A rc \in PublishRcs :
          /\ CmdPublish(rc) =>
                PublishContract(call'.publish_result = "true",
                                call'.published # <<>>, rc)
          /\ PublishStatusRequest(rc) =>
                PublishContract(status_request'.ret = "true",
                                status_request'.handed, rc)]_vars

\* A command's publish returned False with nothing handed to the transport, a
\* status request was taken by the transport and answered with an error
C20_Witness ==
    /\ call.pc = "done"
    /\ call.publish_result = "false"
    /\ call.published = <<>>
    /\ status_request = [ret |-> "false", handed |-> TRUE]

\* C21: the client owns at most one live transport session at any time: no
\* paho client is started while the network thread of an earlier one of the
\* same OlarmMqttClient is running.
C21_AtMostOneLiveSession == Cardinality(loop_running) <= 1

\* A step in which a connect() call returns False: paho is missing (line 92),
\* an exception was caught (line 156) or the wait loop ran out (line 149)
ConnectReturnsFalse ==
    \E t \in DOMAIN tasks :
        \/ ConnectTimeout(t)
        \/ ~has_paho /\ ConnectEnter(t, "ok")
        \/ /\ has_paho /\ connection_lock = 0 /\ ~is_connected
           /\ \E o \in {"exc_ctor", "exc_setup"} : ConnectEnter(t, o)

\* C22: whenever connect() returns False, after the timeout and after an
\* exception alike, the attempt's resources are released: no network thread
\* of the client the call created is running and self.mqtt_client is None.
C22_FailedConnectReleasesClient ==
    [][ConnectReturnsFalse =>
          (mqtt_client' = 0 /\ Cardinality(loop_running') <= Cardinality(loop_running))]_vars

\* Index i of the list new carries a value that the list prev did not have
\* at i
Differs(prev, new, i) == i > Len(prev) \/ prev[i] # new[i]

\* C23: a change notification is emitted for an area or zone index only when
\* its value in the incoming snapshot differs from its value in the prior
\* one: a STREAM event that changes one area notifies that area only.
C23_NotifyOnlyChanged ==
    [][\A m \in AlarmDatas :
          StreamEvent(m) =>
             /\ \A i \in handler'.area_signals :
                    Differs(handler.device_areas, m.areas, i)
             /\ \A i \in handler'.zone_signals :
                    Differs(handler.device_zones, m.zones, i)]_vars

\* The list the handler holds for a key is the one of the message it holds
\* as device_state
SameMessage(list, has, v) == list = IF has THEN v ELSE <<>>

\* C24: the device's state is never half-updated: the stored raw state, the
\* area list and the zone list all come from one message, and no list keeps
\* values of an earlier message, also when the new one lacks zones or
\* zonesStamp.
C24_StoreFromOneMessage ==
    handler.device_state.present =>
        /\ SameMessage(handler.device_areas, handler.device_state.has_areas,
                       handler.device_state.areas)
        /\ SameMessage(handler.device_zones, handler.device_state.has_zones,
                       handler.device_state.zones)

(***************************************************************************)
(* Part 4.  Payloads of every kind arriving on an established session:     *)
(*          on_message and _process_message (mqtt.py), then                *)
(*          process_mqtt_message (handler.py).                             *)
(***************************************************************************)

\* Payloads that are not an alarmPayload with a data field: bytes that are
\* not UTF-8, text that is not JSON, JSON that is not an object, an object
\* without "type", an object of another type, an alarmPayload without "data"
Malformed == {"not_utf8", "not_json", "not_object"}
OtherTypes == {"no_type", "other_type"}
DiscardedKinds == Malformed \cup OtherTypes \cup {"no_data"}

\* msg.payload.decode("utf-8") succeeds (mqtt.py 249-253)
DecodesAsText(k) == k # "not_utf8"

\* json.loads(payload) succeeds (handler.py 58, 70)
ParsesAsJson(k) == k \notin {"not_utf8", "not_json"}

\* Every type is taken for an alarmPayload
IsAlarmPayloadAnyType(k) == k \in {"no_data", "alarm"} \cup OtherTypes

\* data.get("type") == "alarmPayload" (handler.py 61)
IsAlarmPayload(k) == k \in {"no_data", "alarm"}

\* A payload that is not JSON empties the handler's dictionaries
ProcessMqttMessageForgets(h, k, m) ==
    LET quiet == [h EXCEPT !.area_signals = {}, !.zone_signals = {}] IN
    IF ~DecodesAsText(k) THEN quiet
    ELSE IF ~ParsesAsJson(k)
         THEN [quiet EXCEPT !.device_state = NoAlarmData,
                            !.device_areas = <<>>, !.device_zones = <<>>]
    ELSE IF k = "not_object" THEN quiet
    ELSE IF ~IsAlarmPayload(k) THEN quiet
    ELSE IF k = "no_data" THEN quiet
    ELSE ProcessAlarmPayload(h, m)

\* on_message, _process_message and process_mqtt_message on a payload of kind
\* k (m is its data when k is "alarm"): the handler's dictionaries and the
\* signals dispatched.  A payload that does not decode ends on_message; a
\* JSONDecodeError and the AttributeError of .get on a non-object are caught
\* (handler.py 70-76); other types are logged; an alarmPayload without data
\* returns at handler.py 80-83.
ProcessMqttMessage(h, k, m) ==
    LET quiet == [h EXCEPT !.area_signals = {}, !.zone_signals = {}] IN
    IF ~DecodesAsText(k) THEN quiet
    ELSE IF ~ParsesAsJson(k) THEN quiet
    ELSE IF k = "not_object" THEN quiet
    ELSE IF ~IsAlarmPayload(k) THEN quiet
    ELSE IF k = "no_data" THEN quiet
    ELSE ProcessAlarmPayload(h, m)

\* The signals dispatched reach the entities
Delivered(h, e, k, m) ==
    IF h.area_signals = {} /\ h.zone_signals = {} THEN e ELSE EntitiesAfter(e, m)

Shift(k) == <<received[2], k>>

\* A payload of a kind in DiscardedKinds arrives
DiscardedMessage(k) ==
    /\ is_connected
    /\ handler' = ProcessMqttMessage(handler, k, NoAlarmData)
    /\ entity' = Delivered(handler', entity, k, NoAlarmData)
    /\ received' = Shift(k)
    /\ UNCHANGED <<coordinator, applied, devices, inbox, token, conn_vars,
                   cmd_vars>>

\* An alarmPayload with data m arrives
AlarmMessage(m) ==
    /\ is_connected
    /\ handler' = ProcessMqttMessage(handler, "alarm", m)
    /\ StreamEvent(m)
    /\ received' = Shift("alarm")
    /\ UNCHANGED inbox

\* The session that async_setup_entry established: on_connect ran with rc = 0,
\* subscribed and published its status request, connect() returned True
SessionUp ==
    /\ is_connected = TRUE
    /\ mqtt_client = 1
    /\ subscribed_topics = {Topic}
    /\ reconnect_attempts = 0
    /\ reconnect_task = 0
    /\ connection_lock = 0
    /\ tasks = <<>>
    /\ loop_blocked = 0
    /\ clients = <<[sess |-> "up", tpc |-> "idle"]>>
    /\ loop_running = {1}
    /\ fleet = [setup |-> "done", in_clients |-> TRUE, timer |-> TRUE,
                unloaded |-> FALSE]
    /\ status_published = 1
    /\ gave_up = FALSE

InitMsg ==
    /\ has_paho = TRUE
    /\ SessionUp
    /\ NoPanel
    /\ handler = [device_state |-> NoAlarmData, device_areas |-> <<>>,
                  device_zones |-> <<>>, area_signals |-> {},
                  zone_signals |-> {}]
    /\ entity = [area |-> NoAreaMap, zone |-> NoZoneMap,
                 mqtt_enabled |-> TRUE, api_enabled |-> FALSE]
    /\ coordinator = [NoSnapshot EXCEPT !.device = TRUE]
    /\ applied = [area |-> NoAreaMap, zone |-> NoZoneMap, stream_power |-> None,
                  poll |-> DerivedOfPoll(coordinator),
                  last |-> DerivedOfPoll(coordinator)]
    /\ received = NothingReceived
    /\ devices = NoDevices
    /\ inbox = NoInbox
    /\ token = TokensAtSetup

NextMsg ==
    \/ \E k \in DiscardedKinds : DiscardedMessage(k)
    \/ \E m \in AlarmDatas : AlarmMessage(m)

SpecMsg == InitMsg /\ [][NextMsg]_vars

\* The dictionaries of the store for the device
Stored(h) == <<h.device_state, h.device_areas, h.device_zones>>

\* The step leaves the store of the device alone and notifies nobody
StoreUntouched ==
    /\ Stored(handler') = Stored(handler)
    /\ handler'.area_signals = {}
    /\ handler'.zone_signals = {}
    /\ entity' = entity

C26_OnlyAlarmPayloadChangesStore ==
    [][\A k \in OtherTypes : DiscardedMessage(k) => StoreUntouched]_vars

\* A message of another type arrived after an alarmPayload; the store holds
\* what the alarmPayload brought
C26_Witness ==
    /\ received = <<"alarm", "other_type">>
    /\ handler.device_state.present
    /\ handler.device_areas # <<>>
    /\ handler.device_zones # <<>>
    /\ handler.area_signals = {}

(***************************************************************************)
(* Part 5.  The state store of an account with several devices: the        *)
(*          handler's dictionaries and coordinator.data by device id.      *)
(***************************************************************************)

\* STREAM events and POLL entries fed to the store of several devices: events
\* without power whose area list is complete and whose zones come with their
\* stamp, and three POLL entries
FleetDatas ==
    {m \in AlarmDatas : /\ ~m.has_power
                        /\ m.has_areas => Len(m.areas) = NumAreas
                        /\ m.has_zones => (m.has_zstamp /\ m.zones[1] = "a")}

FleetSnapshots ==
    {NoSnapshot, [NoSnapshot EXCEPT !.device = TRUE],
     [device |-> TRUE, has_state |-> TRUE,
      areas |-> [i \in 1..NumAreas |-> "arm"],
      zones |-> [i \in 1..NumZones |-> "c"],
      has_power |-> TRUE, power |-> "1"]}

\* A key that does not tell the devices apart
DeviceKeyShared(device_id) == 1

\* The key under which the handler stores, and into the signal names of
\* which it puts, the device id its callback was given (handler.py 88, 133,
\* 137, 169, 172); OlarmMqttClient gives its own device id (mqtt.py 293)
DeviceKey(device_id) == device_id

\* An alarmPayload with data m arrives on the connection of device d:
\* _process_alarm_payload writes the entries of the device and the entities
\* listening to the signals named after the device take the values
StreamEventFor(d, m) ==
    /\ devices' =
         [devices EXCEPT ![DeviceKey(d)] =
             [@ EXCEPT !.handler = ProcessAlarmPayload(@, m),
                       !.entity = EntitiesAfter(@, m)]]
    /\ UNCHANGED <<handler, entity, coordinator, applied, received, inbox,
                   token, conn_vars, cmd_vars>>

\* _async_update_data returns: coordinator.data is the dictionary built from
\* the answer, sns[d] being what the answer lists for device d
PollResultAll(sns) ==
    /\ devices' = [d \in DeviceIds |-> [devices[d] EXCEPT !.coordinator = sns[d]]]
    /\ UNCHANGED <<handler, entity, coordinator, applied, received, inbox,
                   token, conn_vars, cmd_vars>>

\* Entities exist for the devices the first refresh listed
InitFleetStore ==
    /\ has_paho = TRUE
    /\ ClientConstructed
    /\ NoPanel
    /\ handler = HandlerConstructed
    /\ entity = [area |-> NoAreaMap, zone |-> NoZoneMap,
                 mqtt_enabled |-> FALSE, api_enabled |-> FALSE]
    /\ coordinator = NoSnapshot
    /\ applied = [area |-> NoAreaMap, zone |-> NoZoneMap, stream_power |-> None,
                  poll |-> NoDerived, last |-> NoDerived]
    /\ received = NothingReceived
    /\ inbox = NoInbox
    /\ token = TokensAtSetup
    /\ \E en \in BOOLEAN, api \in BOOLEAN :
          devices = [d \in DeviceIds |->
                       DeviceConstructed(en, api, [NoSnapshot EXCEPT !.device = TRUE])]

NextFleetStore ==
    \/ \E d \in DeviceIds, m \in FleetDatas : StreamEventFor(d, m)
    \/ \E sns \in [DeviceIds -> FleetSnapshots] : PollResultAll(sns)

SpecFleetStore == InitFleetStore /\ [][NextFleetStore]_vars

\* C27: merges are isolated per device: a STREAM event for one device
\* leaves every other device's stored state, entities and POLL data as they
\* were and makes the device's own stored state the event's data; a POLL
\* result gives each device its own entry and touches no STREAM-held state.
C27_MergesIsolatedPerDevice ==
    [][/\ \A d \in DeviceIds, m \in FleetDatas :
             StreamEventFor(d, m) =>
                /\ \A o \in DeviceIds \ {d} : devices'[o] = devices[o]
                /\ devices'[d].handler.device_state = m
                /\ devices'[d].coordinator = devices[d].coordinator
       /\ \A sns \in [DeviceIds -> FleetSnapshots] :
             PollResultAll(sns) =>
                \A d \in DeviceIds :
                   /\ devices'[d].coordinator = sns[d]
                   /\ devices'[d].handler = devices[d].handler
                   /\ devices'[d].entity = devices[d].entity]_vars

\* Two devices hold different STREAM data and different POLL entries
C27_Witness ==
    /\ devices[1].entity.mqtt_enabled
    /\ devices[1].handler.device_areas = [i \in 1..NumAreas |-> "arm"]
    /\ devices[1].entity.area = [a \in Areas |-> "arm"]
    /\ devices[1].coordinator = NoSnapshot
    /\ devices[2].handler.device_areas = [i \in 1..NumAreas |-> "disarm"]
    /\ devices[2].entity.area = [a \in Areas |-> "disarm"]
    /\ devices[2].handler.device_zones # <<>>
    /\ devices[2].coordinator.has_state

\* C28: fleet startup isolates per-device failures: whatever the connect()
\* of a device does, async_setup_entry gets past it to the devices after it,
\* so the event loop is never blocked for good while setup awaits a
\* device's connect().
C28_SetupGetsPastEveryDevice ==
    fleet.setup = "connecting" => loop_blocked = 0

\* C29: once startup is over and until unload begins, the periodic
\* health-check timer runs and its tick covers the device's connection,
\* whether or not the initial connect() of the device succeeded.
C29_HealthCheckCoversEveryClient ==
    (fleet.setup = "done" /\ ~fleet.unloaded /\ loop_blocked # DisconnectCall) =>
        (fleet.timer /\ fleet.in_clients)

\* C30: when async_unload_entry returns, the connection of the device is
\* not connected, the health-check timer is cancelled, no network thread of
\* a transport client of the device still runs, and no connect() or delayed
\* reconnect started earlier is left on the event loop to bring a session
\* back up.
C30_NothingLiveAfterUnload ==
    [][(AsyncUnloadEntry /\ fleet'.unloaded) =>
          /\ ~is_connected'
          /\ ~fleet'.timer
          /\ loop_running' = {}
          /\ tasks' = <<>>]_vars

\* A publish that found the connection up and was not taken by the transport
FailedPublish ==
    /\ PublishGate(is_connected, mqtt_client)
    /\ \E rc \in PublishRcs \ {"ok"} : CmdPublish(rc) \/ PublishStatusRequest(rc)

\* C31: a publish that fails while connected leaves the connection as it
\* was: the flag stays true, the attempt counter is unchanged, no reconnect
\* is scheduled; and the command after a failed publish still takes the
\* MQTT path first.
C31_FailedPublishLeavesConnection ==
    [][/\ FailedPublish =>
             /\ is_connected'
             /\ mqtt_client' = mqtt_client
             /\ reconnect_attempts' = reconnect_attempts
             /\ reconnect_task' = reconnect_task
             /\ tasks' = tasks
       /\ \A cm \in Commands, a \in Areas :
             (/\ call.publish_result = "false"
              /\ panel.mqtt_enabled /\ panel.has_client /\ is_connected
              /\ CmdStart(cm, a)) => call'.pc = "publish"]_vars

\* A command's publish was refused by the transport on a connection that is
\* still up
C31_Witness ==
    /\ call.pc = "done"
    /\ call.publish_result = "false"
    /\ call.published # <<>>
    /\ is_connected
    /\ mqtt_client # 0
    /\ reconnect_attempts = 0

\* A health check of the client: the timer's tick or the service
HealthCheck == CheckMqttPeriodically \/ AsyncCheckMqttStatus

\* C32: get_status() is a pure read in every connection state: the health
\* check that calls it leaves every field of the connection as it was, and
\* the flag it reports is the current one (the check starts a connect()
\* exactly when the connection is not connected).
C32_GetStatusIsPureRead ==
    [][HealthCheck =>
          /\ <<is_connected, mqtt_client, subscribed_topics, reconnect_attempts,
               reconnect_task, connection_lock, clients, loop_running,
               loop_blocked, gave_up>>' =
             <<is_connected, mqtt_client, subscribed_topics, reconnect_attempts,
               reconnect_task, connection_lock, clients, loop_running,
               loop_blocked, gave_up>>
          /\ (tasks' = tasks) = is_connected
          /\ GetStatus' = GetStatus]_vars

\* A health check read the status in the middle of a reconnect: its connect()
\* was started while a delayed reconnect is pending
C32_Witness ==
    /\ ~is_connected
    /\ reconnect_attempts > 0
    /\ \E t \in DOMAIN tasks : tasks[t].kind = "delayed" /\ tasks[t].pc = "sleep"
    /\ \E t \in DOMAIN tasks : tasks[t].kind = "check" /\ tasks[t].pc = "start"

\* C33: a REST call issues one HTTP request and every failure of it (status
\* other than 200, network error, the 30 s timeout) reaches the caller as
\* OlarmApiError and as no other error.
C33_RestFailureIsApiError ==
    /\ call.rest_calls <= 1
    /\ call.rest_outcome \in {"none", "ok", "ApiError"}

\* The REST call of the command in progress is answered with a rejected token
TokenRejected == call.pc = "rest" /\ CmdRestResponse(Request("401"))

\* C34: a REST call that fails because the access token is invalid or
\* expired is followed by a token refresh and one retry of the call: the
\* step in which the rejection arrives issues the call a second time.
C34_TokenFailureRetriedOnce ==
    [][TokenRejected =>
          /\ call'.pc = "rest"
          /\ call'.rest_calls = call.rest_calls + 1]_vars

\* The connect() of a delayed reconnect of an attempt below the cap runs
\* into its timeout
ReconnectAttemptTimesOut ==
    /\ reconnect_attempts < max_reconnect_attempts
    /\ \E t \in DOMAIN tasks : tasks[t].kind = "delayed" /\ ConnectTimeout(t)

\* C35: a reconnect attempt that fails below the cap is followed by the next
\* attempt: when the connect() of a delayed reconnect times out, the
\* connection is connected or a further delayed reconnect is pending; it
\* does not rest disconnected with the counter below the cap and no timer.
C35_FailedAttemptSchedulesNext ==
    [][ReconnectAttemptTimesOut =>
          (is_connected' \/ PendingReconnects' # {})]_vars

(***************************************************************************)
(* Part 6.  Messages between the transport thread and the event loop:      *)
(*          on_message hands each payload to the loop with                 *)
(*          run_coroutine_threadsafe, the loop runs _process_message.      *)
(***************************************************************************)

\* The payloads fed to the queue: the alarmPayload data of FleetDatas and one
\* payload of every discarded kind
QueuePayloads ==
    {[kind |-> "alarm", data |-> m] : m \in FleetDatas} \cup
    {[kind |-> k, data |-> NoAlarmData] : k \in DiscardedKinds}

\* The loop runs the newest coroutine first
NextToRunNewestFirst == Len(inbox.msgs) - inbox.done

\* The coroutine the loop runs next: call_soon_threadsafe appends to the
\* loop's ready queue and the loop runs it from the front; _process_message,
\* process_mqtt_message and _process_alarm_payload never wait (mqtt.py
\* 279-305, handler.py 39-185), so each coroutine ends before the next starts
NextToRun == inbox.done + 1

\* on_message on the transport thread: a payload that is not text is dropped
\* there, any other is handed to the loop
OnMessage(p) ==
    /\ is_connected
    /\ Len(inbox.msgs) < MaxMessages
    /\ received' = Shift(p.kind)
    /\ inbox' = IF DecodesAsText(p.kind)
                THEN [inbox EXCEPT !.msgs = Append(@, p)]
                ELSE inbox
    /\ UNCHANGED <<handler, entity, coordinator, applied, devices, token,
                   conn_vars, cmd_vars>>

\* The loop runs the next _process_message: the handler's callback and the
\* entities' signal handlers
ProcessMessage ==
    /\ loop_blocked = 0
    /\ inbox.done < Len(inbox.msgs)
    /\ LET p == inbox.msgs[NextToRun] IN
          /\ handler' = ProcessMqttMessage(handler, p.kind, p.data)
          /\ IF p.kind = "alarm"
             THEN StreamEvent(p.data)
             ELSE /\ entity' = Delivered(handler', entity, p.kind, p.data)
                  /\ UNCHANGED <<coordinator, applied, devices, token,
                                 conn_vars, cmd_vars>>
    /\ inbox' = [inbox EXCEPT !.done = @ + 1]
    /\ UNCHANGED received

InitQueue ==
    /\ InitMsg

NextQueue ==
    \/ \E p \in QueuePayloads : OnMessage(p)
    \/ ProcessMessage

SpecQueue == InitQueue /\ [][NextQueue]_vars

\* The store after the first n payloads handed to the loop were merged one
\* after the other in the order they were handed over
RECURSIVE MergedInOrder(_)
MergedInOrder(n) ==
    IF n = 0 THEN HandlerConstructed
    ELSE ProcessMqttMessage(MergedInOrder(n - 1), inbox.msgs[n].kind,
                            inbox.msgs[n].data)

\* The alarmPayloads among the payloads handed to the loop
AlarmsReceived == {i \in DOMAIN inbox.msgs : inbox.msgs[i].kind = "alarm"}

Latest(S) == CHOOSE i \in S : \A j \in S : j <= i

\* C36: the STREAM messages of a device are merged in the order they
\* arrived: at any moment the store is the in-order merge of the messages
\* processed so far, and once every received message is processed the stored
\* state is that of the last alarmPayload received.
C36_MergedInArrivalOrder ==
    /\ Stored(handler) = Stored(MergedInOrder(inbox.done))
    /\ (inbox.done = Len(inbox.msgs) /\ AlarmsReceived # {}) =>
          handler.device_state = inbox.msgs[Latest(AlarmsReceived)].data

\* Two alarmPayloads with different areas and then a payload of another type
\* were received; all three are processed
C36_Witness ==
    /\ Len(inbox.msgs) = 3
    /\ inbox.done = 3
    /\ inbox.msgs[1].kind = "alarm" /\ inbox.msgs[1].data.has_areas
    /\ inbox.msgs[2].kind = "alarm" /\ inbox.msgs[2].data.has_areas
    /\ inbox.msgs[1].data.areas # inbox.msgs[2].data.areas
    /\ inbox.msgs[3].kind = "other_type"
    /\ handler.device_areas = inbox.msgs[2].data.areas

\* C37: in every reachable state a client flagged connected holds a
\* transport client: an on_connect that arrives while connect() cleans up
\* after its timeout never leaves is_connected true with mqtt_client None.
C37_ConnectedHasClient == is_connected => mqtt_client # 0

\* C38: the reconnect attempt counter stays within 0..max_reconnect_attempts
\* in every reachable state, whatever the interleaving of the transport
\* threads' callbacks with the event loop.
C38_AttemptsWithinCap ==
    reconnect_attempts \in 0..max_reconnect_attempts

\* The counter is at the cap, the client has given up, and the network
\* threads of two transport clients deliver callbacks
C38_Witness ==
    /\ reconnect_attempts = max_reconnect_attempts
    /\ gave_up
    /\ Cardinality(loop_running) = 2
    /\ reconnect_task = 0

(***************************************************************************)
(* Part 7.  Access tokens                                                  *)
(***************************************************************************)

\* How many times the provider issues a new access token
MaxRefreshes == 1

\* OlarmAuth.refresh_access_token succeeded (auth.py 299): the provider's
\* next token is the current one
RefreshAccessToken(tk) == [tk EXCEPT !.auth = @ + 1]

\* _async_update_data up to its await of get_devices(): ensure_access_token
\* found the token expired and refreshed it, and the API client is given the
\* new token (__init__.py 436-444).  The rest of the method is PollResult.
UpdateDataRefresh ==
    /\ loop_blocked = 0
    /\ token.auth <= MaxRefreshes
    /\ token' = [RefreshAccessToken(token) EXCEPT
                   !.api_key = RefreshAccessToken(token).auth]
    /\ UNCHANGED <<handler, entity, coordinator, applied, received, devices,
                   inbox, conn_vars, cmd_vars>>

\* The password connect() gives to the paho client it has just created
\* (mqtt.py 108)
UsernamePwSet == token.mqtt

\* A step in which connect() creates a paho client, sets its credentials and
\* starts its session (mqtt.py 104-127)
SessionOpened ==
    /\ has_paho /\ connection_lock = 0 /\ ~is_connected
    /\ \E t \in DOMAIN tasks : ConnectEnter(t, "ok")

NextToken ==
    \/ Next
    \/ UpdateDataRefresh

SpecToken == Init /\ [][NextToken]_vars

\* C39: every session a connection opens (initial connect, delayed
\* reconnect, health-check reconnect) authenticates with the token the
\* provider currently holds, never with an older one captured at
\* construction.
C39_SessionUsesCurrentToken ==
    [][SessionOpened => UsernamePwSet = token.auth]_vars

(***************************************************************************)
(* The arm state an area entity reports                                    *)
(***************************************************************************)

\* OLARM_TO_HA_STATE.get (alarm_control_panel.py 44-51) on the area states
\* of the model
OlarmToHaState(s) ==
    CASE s = "disarm" -> "DISARMED"
      [] s = "arm" -> "ARMED_AWAY"
      [] OTHER -> None

\* OlarmAlarmPanel.alarm_state (alarm_control_panel.py 203-209)
AlarmState(a) ==
    IF GetOlarmState(a) = None THEN None ELSE OlarmToHaState(GetOlarmState(a))

\* No STREAM event gave the area a state and the last POLL snapshot carries
\* none for it
NoDataFor(a) == applied.area[a] = None /\ applied.poll.area[a] = None

\* C40: an area is reported DISARMED only when a snapshot gave it the
\* disarmed state; while no snapshot has given the area any state the
\* reported arm state is none, never DISARMED.
C40_NoDataIsNotDisarmed ==
    \A a \in Areas : NoDataFor(a) => AlarmState(a) = None

====
